---- MODULE Spec2Model ----
(***************************************************************************)
(* A model of the normalize -> metrics -> score pipeline of the            *)
(* ai-code-intelligence-platform backend:                                  *)
(*   app/services/processors/normalize.py   normalize_flake8/_bandit      *)
(*   app/services/processors/metrics.py     build_metrics                 *)
(*   app/services/scoring/scoring.py        compute_score                 *)
(*   app/services/runners/*.py              run_flake8, run_bandit        *)
(*   app/services/pipeline/simple_pipeline.py  run_tools_for_scan         *)
(*                                                                         *)
(* Python values are tagged tuples: <<"none">>, <<"str", s>>, <<"int", n>>,*)
(* <<"list", seq>>, <<"dict", seq of <<key, value>> in insertion order>>.  *)
(* A call that raises yields <<"raise", exception name>>.                  *)
(***************************************************************************)
EXTENDS Integers, Sequences, FiniteSets, TLC

VARIABLES
    n_call,     \* the normalize call: <<tool, raw>>
    n_ret,      \* what that call returned (a document) or raised
    m_call,     \* the last build_metrics call: <<norm_objects, unified_issues>>
    m_ret,      \* what it returned or raised
    m_prev,     \* the result of the call before, when the last call re-ran
                \* build_metrics on the same issues in another order
    s_call,     \* the last compute_score call: the metrics argument
    s_ret,      \* what it returned or raised
    s_prev,     \* the result of the call before, when the last call re-scored
                \* the same metrics with one severity count increased
    files,      \* the scan workspace: file name -> stored JSON value or Absent
    run         \* the last run_tools_for_scan: tool outputs and return value

vars == <<n_call, n_ret, m_call, m_ret, m_prev, s_call, s_ret, s_prev, files, run>>

----------------------------------------------------------------------------
(* Python values *)

None == <<"none">>
PyStr(s) == <<"str", s>>
PyInt(n) == <<"int", n>>
PyList(xs) == <<"list", xs>>
PyDict(items) == <<"dict", items>>
PyBool(b) == <<"bool", b>>
PyFloat(c) == <<"float", c>>
Raise(e) == <<"raise", e>>
Absent == <<"absent">>

IsNone(v) == v[1] = "none"
IsStr(v) == v[1] = "str"
IsInt(v) == v[1] = "int"
IsList(v) == v[1] = "list"
IsDict(v) == v[1] = "dict"
IsRaise(v) == v[1] = "raise"

\* bool(v): None, "", 0, [] and {} are falsy
Truthy(v) ==
    CASE IsNone(v) -> FALSE
      [] IsStr(v) -> v[2] # ""
      [] IsInt(v) -> v[2] # 0
      [] v[1] = "float" -> v[2] # 0
      [] v[1] = "bool" -> v[2]
      [] OTHER -> Len(v[2]) > 0

\* a or b
PyOr(a, b) == IF Truthy(a) THEN a ELSE b

\* lists and dicts are unhashable: using one as a dict key raises TypeError
Hashable(v) == ~(IsList(v) \/ IsDict(v))

\* position of key k in a dict's items, 0 when absent
RECURSIVE KeyIndex(_, _, _)
KeyIndex(items, k, i) ==
    IF i > Len(items) THEN 0
    ELSE IF items[i][1] = k THEN i
    ELSE KeyIndex(items, k, i + 1)

HasKey(d, k) == KeyIndex(d[2], k, 1) # 0

\* d.get(k, default)
DictGet(d, k, default) ==
    LET i == KeyIndex(d[2], k, 1)
    IN  IF i = 0 THEN default ELSE d[2][i][2]

\* d.get("name"): None when absent
Get(d, name) == DictGet(d, PyStr(name), None)

\* d[k] = v: replaces in place, or appends (insertion order is kept)
DictSet(d, k, v) ==
    LET i == KeyIndex(d[2], k, 1)
    IN  IF i = 0 THEN PyDict(Append(d[2], <<k, v>>))
        ELSE PyDict([d[2] EXCEPT ![i] = <<k, v>>])

\* a dict literal with string keys
RECURSIVE MkItems(_)
MkItems(pairs) ==
    IF pairs = <<>> THEN <<>>
    ELSE <<<<PyStr(Head(pairs)[1]), Head(pairs)[2]>>>> \o MkItems(Tail(pairs))

MkDict(pairs) == PyDict(MkItems(pairs))

\* str.lower() on the strings of this model
Lower(s) ==
    CASE s = "HIGH" -> "high"
      [] s = "MEDIUM" -> "medium"
      [] s = "LOW" -> "low"
      [] s = "UNDEFINED" -> "undefined"
      [] s = "Bandit" -> "bandit"
      [] s = "FLAKE8" -> "flake8"
      [] OTHER -> s

\* str(v) as an f-string formats it
Format(v) ==
    CASE IsStr(v) -> v[2]
      [] IsInt(v) -> ToString(v[2])
      [] IsNone(v) -> "None"
      [] IsList(v) -> "[...]"
      [] OTHER -> "{...}"

----------------------------------------------------------------------------
(* JSON texts: what a tool prints, or a raw input handed over as a string *)

TextNotJson == "not json"
TextEmptyObject == "{}"
TextEmptyArray == "[]"
TextNull == "null"
TextNumber == "3"
TextFlake8A == "{\"a.py\": [{\"code\": \"F401\", \"filename\": \"a.py\", \"line_number\": 1}]}"
TextFlake8B == "{\"b.py\": [{\"code\": \"E501\", \"line_number\": 2}, {\"code\": \"C901\", \"line_number\": 7}]}"
TextFlake8BadCode == "{\"a.py\": [{\"code\": [\"E1\"]}]}"
TextBanditA == "{\"results\": [{\"filename\": \"a.py\", \"line_number\": 3, \"test_id\": \"B101\", \"issue_severity\": \"HIGH\", \"issue_confidence\": \"MEDIUM\"}], \"metrics\": {\"_totals\": {\"loc\": 120}}}"
TextBanditB == "{\"results\": [], \"metrics\": {\"_totals\": {\"loc\": 40}}}"
TextBanditBadSeverity == "{\"results\": [{\"filename\": \"a.py\", \"test_id\": \"B101\", \"issue_severity\": 5}]}"

DocFlake8A ==
    MkDict(<< <<"a.py", PyList(<< MkDict(<< <<"code", PyStr("F401")>>,
                                            <<"filename", PyStr("a.py")>>,
                                            <<"line_number", PyInt(1)>> >>) >>)>> >>)
DocFlake8B ==
    MkDict(<< <<"b.py", PyList(<< MkDict(<< <<"code", PyStr("E501")>>,
                                            <<"line_number", PyInt(2)>> >>),
                                  MkDict(<< <<"code", PyStr("C901")>>,
                                            <<"line_number", PyInt(7)>> >>) >>)>> >>)
DocFlake8BadCode ==
    MkDict(<< <<"a.py", PyList(<< MkDict(<< <<"code", PyList(<<PyStr("E1")>>)>> >>) >>)>> >>)
DocBanditA ==
    MkDict(<< <<"results", PyList(<< MkDict(<< <<"filename", PyStr("a.py")>>,
                                               <<"line_number", PyInt(3)>>,
                                               <<"test_id", PyStr("B101")>>,
                                               <<"issue_severity", PyStr("HIGH")>>,
                                               <<"issue_confidence", PyStr("MEDIUM")>> >>) >>)>>,
              <<"metrics", MkDict(<< <<"_totals", MkDict(<< <<"loc", PyInt(120)>> >>)>> >>)>> >>)
DocBanditB ==
    MkDict(<< <<"results", PyList(<<>>)>>,
              <<"metrics", MkDict(<< <<"_totals", MkDict(<< <<"loc", PyInt(40)>> >>)>> >>)>> >>)
DocBanditBadSeverity ==
    MkDict(<< <<"results", PyList(<< MkDict(<< <<"filename", PyStr("a.py")>>,
                                               <<"test_id", PyStr("B101")>>,
                                               <<"issue_severity", PyInt(5)>> >>) >>)>> >>)

\* json.loads(text): the parsed value, or JSONDecodeError
json_loads(text) ==
    CASE text = TextEmptyObject -> PyDict(<<>>)
      [] text = TextEmptyArray -> PyList(<<>>)
      [] text = TextNull -> None
      [] text = TextNumber -> PyInt(3)
      [] text = TextFlake8A -> DocFlake8A
      [] text = TextFlake8B -> DocFlake8B
      [] text = TextFlake8BadCode -> DocFlake8BadCode
      [] text = TextBanditA -> DocBanditA
      [] text = TextBanditB -> DocBanditB
      [] text = TextBanditBadSeverity -> DocBanditBadSeverity
      [] OTHER -> Raise("JSONDecodeError")

----------------------------------------------------------------------------
(* normalize.py *)

\* counts loop of both normalizers: key = it.get(field) or "UNDEFINED"/"UNKNOWN";
\* by[key] = by.get(key, 0) + 1.  An unhashable key raises TypeError.
RECURSIVE CountBy(_, _, _, _, _)
CountBy(issues, field, dflt, i, by) ==
    IF i > Len(issues) THEN by
    ELSE LET key == PyOr(Get(issues[i], field), PyStr(dflt))
         IN  IF ~Hashable(key) THEN Raise("TypeError")
             ELSE CountBy(issues, field, dflt, i + 1,
                          DictSet(by, key, PyInt(DictGet(by, key, PyInt(0))[2] + 1)))

\* the issue normalize_flake8 appends for raw issue `it`; file_path is the
\* outer grouping key (Case A) or None (Case B, which reads filename only)
Flake8Issue(it, file_path) ==
    MkDict(<< <<"file", PyOr(Get(it, "filename"), file_path)>>,
              <<"line", Get(it, "line_number")>>,
              <<"col", Get(it, "column_number")>>,
              <<"code", Get(it, "code")>>,
              <<"message", Get(it, "text")>>,
              <<"source_line", Get(it, "physical_line")>> >>)

\* for it in file_issues: if not isinstance(it, dict): continue; issues.append(...)
RECURSIVE Flake8ListIssues(_, _, _)
Flake8ListIssues(file_issues, file_path, j) ==
    IF j > Len(file_issues) THEN <<>>
    ELSE (IF IsDict(file_issues[j])
          THEN <<Flake8Issue(file_issues[j], file_path)>> ELSE <<>>)
         \o Flake8ListIssues(file_issues, file_path, j + 1)

\* Case A: for file_path, file_issues in raw.items(): skip non-lists
RECURSIVE Flake8DictIssues(_, _)
Flake8DictIssues(items, i) ==
    IF i > Len(items) THEN <<>>
    ELSE (IF IsList(items[i][2])
          THEN Flake8ListIssues(items[i][2][2], items[i][1], 1) ELSE <<>>)
         \o Flake8DictIssues(items, i + 1)

\* a string input is parsed; a parse failure becomes {}
ParseIfStr(raw) ==
    IF IsStr(raw)
    THEN LET parsed == json_loads(raw[2])
         IN  IF IsRaise(parsed) THEN PyDict(<<>>) ELSE parsed
    ELSE raw

normalize_flake8(raw0) ==
    LET raw == ParseIfStr(raw0)
        issues == IF IsDict(raw) THEN Flake8DictIssues(raw[2], 1)
                  ELSE IF IsList(raw) THEN Flake8ListIssues(raw[2], None, 1)
                  ELSE <<>>
        by_code == CountBy(issues, "code", "UNKNOWN", 1, PyDict(<<>>))
    IN  IF IsRaise(by_code) THEN by_code
        ELSE MkDict(<< <<"tool", PyStr("flake8")>>,
                       <<"issues", PyList(issues)>>,
                       <<"counts", MkDict(<< <<"total", PyInt(Len(issues))>>,
                                             <<"by_code", by_code>> >>)>> >>)

BanditIssue(r) ==
    MkDict(<< <<"file", Get(r, "filename")>>,
              <<"line", Get(r, "line_number")>>,
              <<"test_id", Get(r, "test_id")>>,
              <<"test_name", Get(r, "test_name")>>,
              <<"severity", Get(r, "issue_severity")>>,
              <<"confidence", Get(r, "issue_confidence")>>,
              <<"message", Get(r, "issue_text")>>,
              <<"more_info", Get(r, "more_info")>> >>)

RECURSIVE BanditIssues(_, _)
BanditIssues(results, i) ==
    IF i > Len(results) THEN <<>>
    ELSE (IF IsDict(results[i]) THEN <<BanditIssue(results[i])>> ELSE <<>>)
         \o BanditIssues(results, i + 1)

normalize_bandit(raw0) ==
    LET raw == ParseIfStr(raw0)
        got == IF IsDict(raw) THEN PyOr(Get(raw, "results"), PyList(<<>>))
               ELSE PyList(<<>>)
        results == IF IsList(got) THEN got[2] ELSE <<>>
        issues == BanditIssues(results, 1)
        by_sev == CountBy(issues, "severity", "UNDEFINED", 1, PyDict(<<>>))
        by_conf == CountBy(issues, "confidence", "UNDEFINED", 1, PyDict(<<>>))
    IN  IF IsRaise(by_sev) THEN by_sev
        ELSE IF IsRaise(by_conf) THEN by_conf
        ELSE MkDict(<< <<"tool", PyStr("bandit")>>,
                       <<"issues", PyList(issues)>>,
                       <<"counts", MkDict(<< <<"total", PyInt(Len(issues))>>,
                                             <<"by_severity", by_sev>>,
                                             <<"by_confidence", by_conf>> >>)>> >>)

----------------------------------------------------------------------------
(* metrics.py *)

TopRefactorLimit == 5
MostRecurringLimit == 10
TopFilesLimit == 20

\* int(s) for the numerals of this model; any other string has no int value
IntOfStr(s) ==
    CASE s = "0" -> PyInt(0)
      [] s = "3" -> PyInt(3)
      [] s = "120" -> PyInt(120)
      [] OTHER -> Raise("ValueError")

\* _safe_int(x, default): int(x), or default when int(x) raises
safe_int(x, default) ==
    CASE IsInt(x) -> x[2]
      [] IsStr(x) -> (LET n == IntOfStr(x[2]) IN IF IsRaise(n) THEN default ELSE n[2])
      [] OTHER -> default

\* the dict issues of one normalized object, in order
RECURSIVE DictsOf(_, _)
DictsOf(xs, i) ==
    IF i > Len(xs) THEN <<>>
    ELSE (IF IsDict(xs[i]) THEN <<xs[i]>> ELSE <<>>) \o DictsOf(xs, i + 1)

\* _read_unified_issues_from_norm_objects; `tool in {"flake8", "bandit"}` hashes
\* tool, so an unhashable tool raises TypeError
RECURSIVE read_unified_issues_from_norm_objects(_, _)
read_unified_issues_from_norm_objects(norm_objects, i) ==
    IF i > Len(norm_objects) THEN PyList(<<>>)
    ELSE LET obj == norm_objects[i]
             rest == read_unified_issues_from_norm_objects(norm_objects, i + 1)
         IN  IF ~IsDict(obj) THEN rest
             ELSE IF ~IsList(Get(obj, "issues")) THEN rest
             ELSE IF ~Hashable(Get(obj, "tool")) THEN Raise("TypeError")
             ELSE IF IsRaise(rest) THEN rest
             ELSE IF Get(obj, "tool") \in {PyStr("flake8"), PyStr("bandit")}
                  THEN PyList(DictsOf(Get(obj, "issues")[2], 1) \o rest[2])
                  ELSE rest

\* the ranking weight without the severity weights
risk_score_Unweighted(low, medium, high) == high + medium + low

\* _risk_score
risk_score(low, medium, high) == (high * 10) + (medium * 4) + (low * 1)

\* loc = _safe_int(obj.get("loc", 0), 0) of the last object whose tool is bandit
RECURSIVE LocOf(_, _, _)
LocOf(norm_objects, i, loc) ==
    IF i > Len(norm_objects) THEN loc
    ELSE LocOf(norm_objects, i + 1,
               IF IsDict(norm_objects[i]) /\ Get(norm_objects[i], "tool") = PyStr("bandit")
               THEN safe_int(DictGet(norm_objects[i], PyStr("loc"), PyInt(0)), 0)
               ELSE loc)

ZeroSeverities ==
    MkDict(<< <<"low", PyInt(0)>>, <<"medium", PyInt(0)>>, <<"high", PyInt(0)>> >>)

\* d[k] = d.get(k, 0) + 1
Incr(d, k) == DictSet(d, k, PyInt(DictGet(d, k, PyInt(0))[2] + 1))

\* the counters before the first issue
MetricsStart ==
    [by_tool |-> MkDict(<< <<"flake8", PyInt(0)>>, <<"bandit", PyInt(0)>> >>),
     by_severity |-> ZeroSeverities,
     heatmap |-> PyDict(<<>>),
     rule_counts |-> PyDict(<<>>),
     file_total_counts |-> PyDict(<<>>),
     raised |-> ""]

\* the severity as given, with no fallback for unknown levels
CountedSeverity_AsGiven(sev, by_severity) == sev

\* severity of an issue as counted: unknown levels are counted as low
CountedSeverity(sev, by_severity) ==
    IF HasKey(by_severity, PyStr(sev)) THEN sev ELSE "low"

\* one pass of the loop body over a dict issue `it`
CountIssue(st, it) ==
    LET tool_v == PyOr(Get(it, "tool"), PyStr("unknown"))
        sev_v == PyOr(Get(it, "severity"), PyStr("low"))
        rule_id == PyOr(PyOr(Get(it, "rule_id"), Get(it, "code")), PyStr("UNKNOWN"))
        file == PyOr(Get(it, "file"), PyStr("UNKNOWN_FILE"))
    IN  IF ~IsStr(tool_v) \/ ~IsStr(sev_v) THEN [st EXCEPT !.raised = "AttributeError"]
        ELSE IF ~Hashable(file) THEN [st EXCEPT !.raised = "TypeError"]
        ELSE LET tool == Lower(tool_v[2])
                 sev == CountedSeverity(Lower(sev_v[2]), st.by_severity)
                 row == DictGet(st.heatmap, file, ZeroSeverities)
                 key == PyStr(tool \o ":" \o Format(rule_id))
             IN  [by_tool |-> Incr(st.by_tool, PyStr(tool)),
                  by_severity |-> Incr(st.by_severity, PyStr(sev)),
                  heatmap |-> DictSet(st.heatmap, file, Incr(row, PyStr(sev))),
                  rule_counts |-> Incr(st.rule_counts, key),
                  file_total_counts |-> Incr(st.file_total_counts, file),
                  raised |-> ""]

\* CountIssues without the isinstance test: an entry that is not a mapping is
\* counted under the tool "unknown" and under no severity
RECURSIVE CountIssues_NonMappingCounted(_, _, _)
CountIssues_NonMappingCounted(issues, i, st) ==
    IF i > Len(issues) \/ st.raised # "" THEN st
    ELSE CountIssues_NonMappingCounted(issues, i + 1,
             IF IsDict(issues[i]) THEN CountIssue(st, issues[i])
             ELSE [st EXCEPT !.by_tool = Incr(st.by_tool, PyStr("unknown"))])

\* for it in unified_issues: if not isinstance(it, dict): continue; ...
RECURSIVE CountIssues(_, _, _)
CountIssues(issues, i, st) ==
    IF i > Len(issues) \/ st.raised # "" THEN st
    ELSE CountIssues(issues, i + 1,
                     IF IsDict(issues[i]) THEN CountIssue(st, issues[i]) ELSE st)

\* sum(d.values())
RECURSIVE SumValues(_, _)
SumValues(items, i) ==
    IF i > Len(items) THEN 0 ELSE items[i][2][2] + SumValues(items, i + 1)

\* list.sort(key=lambda x: x[field], reverse=True): stable, so entries with
\* equal keys keep their order; `done` is sorted, x goes after every entry
\* whose key is >= its own
RECURSIVE InsertDesc(_, _, _, _)
InsertDesc(done, x, field, i) ==
    IF i > Len(done) THEN Append(done, x)
    ELSE IF Get(done[i], field)[2] >= Get(x, field)[2]
         THEN InsertDesc(done, x, field, i + 1)
         ELSE SubSeq(done, 1, i - 1) \o <<x>> \o SubSeq(done, i, Len(done))

RECURSIVE SortDesc(_, _, _, _)
SortDesc(xs, field, i, done) ==
    IF i > Len(xs) THEN done
    ELSE SortDesc(xs, field, i + 1, InsertDesc(done, xs[i], field, 1))

\* Take without the slice
Take_All(xs, n) == xs

\* xs[:n]
Take(xs, n) == SubSeq(xs, 1, IF Len(xs) < n THEN Len(xs) ELSE n)

\* TopFileEntry without the file's heatmap row: the zero row for every file
TopFileEntry_ZeroRow(heatmap, f, c) ==
    MkDict(<< <<"file", f>>, <<"issues", c>>, <<"low", PyInt(0)>>,
              <<"medium", PyInt(0)>>, <<"high", PyInt(0)>> >>)

\* {"file": f, "issues": c, **heatmap.get(f, zeros)} for f, c in file_total_counts.items()
TopFileEntry(heatmap, f, c) ==
    LET row == DictGet(heatmap, f, ZeroSeverities)
    IN  MkDict(<< <<"file", f>>, <<"issues", c>>,
                  <<"low", Get(row, "low")>>,
                  <<"medium", Get(row, "medium")>>,
                  <<"high", Get(row, "high")>> >>)

RefactorEntry(f, sev_counts) ==
    LET low == DictGet(sev_counts, PyStr("low"), PyInt(0))[2]
        medium == DictGet(sev_counts, PyStr("medium"), PyInt(0))[2]
        high == DictGet(sev_counts, PyStr("high"), PyInt(0))[2]
    IN  MkDict(<< <<"file", f>>,
                  <<"risk_score", PyInt(risk_score(low, medium, high))>>,
                  <<"low", PyInt(low)>>,
                  <<"medium", PyInt(medium)>>,
                  <<"high", PyInt(high)>>,
                  <<"total", PyInt(low + medium + high)>> >>)

RecurringEntry(k, v) == MkDict(<< <<"rule", k>>, <<"count", v>> >>)

top_files_of(heatmap, file_total_counts) ==
    LET items == file_total_counts[2]
        all == [i \in 1..Len(items) |-> TopFileEntry(heatmap, items[i][1], items[i][2])]
    IN  Take(SortDesc(all, "issues", 1, <<>>), TopFilesLimit)

top_refactor_priority_of(heatmap) ==
    LET items == heatmap[2]
        refactor_rank == [i \in 1..Len(items) |-> RefactorEntry(items[i][1], items[i][2])]
    IN  Take(SortDesc(refactor_rank, "risk_score", 1, <<>>), TopRefactorLimit)

most_recurring_issues_of(rule_counts) ==
    LET items == rule_counts[2]
        recurring == [i \in 1..Len(items) |-> RecurringEntry(items[i][1], items[i][2])]
    IN  Take(SortDesc(recurring, "count", 1, <<>>), MostRecurringLimit)

\* the dict build_metrics returns once the loop over the issues ended in st
MetricsReport(st, loc) ==
    IF st.raised # "" THEN Raise(st.raised)
    ELSE MkDict(<<
        <<"metrics_version", PyInt(1)>>,
        <<"totals", MkDict(<< <<"issues", PyInt(SumValues(st.by_tool[2], 1))>>,
                              <<"by_tool", st.by_tool>>,
                              <<"by_severity", st.by_severity>>,
                              <<"loc", PyInt(loc)>> >>)>>,
        <<"top_refactor_priority", PyList(top_refactor_priority_of(st.heatmap))>>,
        <<"heatmap", st.heatmap>>,
        <<"most_recurring_issues", PyList(most_recurring_issues_of(st.rule_counts))>>,
        <<"top_files", PyList(top_files_of(st.heatmap, st.file_total_counts))>> >>)

\* build_metrics once unified_issues is settled
MetricsOf(norm_objects, unified) ==
    IF IsRaise(unified) THEN unified
    ELSE MetricsReport(CountIssues(unified[2], 1, MetricsStart), LocOf(norm_objects, 1, 0))

\* build_metrics(norm_objects, unified_issues): unified_issues None means
\* "read them from norm_objects"
build_metrics(norm_objects, unified_issues) ==
    MetricsOf(norm_objects,
              IF IsNone(unified_issues)
              THEN read_unified_issues_from_norm_objects(norm_objects, 1)
              ELSE unified_issues)

----------------------------------------------------------------------------
(* scoring.py.  Floats are fixed-point: a logarithm or penalty x is the    *)
(* integer x * FixOne; a reported float (round(x, 2)) is <<"float", c>>    *)
(* with c = x in hundredths.                                               *)

FixBits == 14
FixOne == 2 ^ FixBits

A_LOW == 6
A_MED == 14
A_HIGH == 45
FallbackLoc == 1000

\* clamp(x, lo, hi) = max(lo, min(hi, x))
Min(a, b) == IF a < b THEN a ELSE b
Max(a, b) == IF a > b THEN a ELSE b
clamp(x, lo, hi) == Max(lo, Min(hi, x))

\* largest k with q * 2^k <= p, for p >= q > 0
RECURSIVE Log2Floor(_, _, _)
Log2Floor(p, q, k) ==
    IF q * 2 ^ (k + 1) <= p THEN Log2Floor(p, q, k + 1) ELSE k

\* the fraction bits of log2(m / FixOne) for FixOne <= m < 2 * FixOne, by
\* repeated squaring; acc collects the bits
RECURSIVE Log2Frac(_, _, _)
Log2Frac(m, bits, acc) ==
    IF bits = 0 THEN acc
    ELSE LET sq == (m * m) \div FixOne
         IN  IF sq >= 2 * FixOne
             THEN Log2Frac(sq \div 2, bits - 1, 2 * acc + 1)
             ELSE Log2Frac(sq, bits - 1, 2 * acc)

\* ln(p / q) * FixOne for p >= q > 0, rounded down; ln 2 = 7050 / 10171
LnRatioGE1(p, q) ==
    LET k == Log2Floor(p, q, 0)
        m == (p * FixOne) \div (q * 2 ^ k)
        log2 == k * FixOne + Log2Frac(m, FixBits, 0)
    IN  (log2 * 7050) \div 10171

\* log1p_density with math.log in place of math.log1p: ln(1000 * count / loc),
\* a ValueError for count <= 0
log_density(count, loc) ==
    IF count <= 0 THEN Raise("ValueError")
    ELSE IF 1000 * count >= loc THEN PyInt(LnRatioGE1(1000 * count, loc))
    ELSE PyInt(0 - LnRatioGE1(loc, 1000 * count))

\* math.log1p(d) * FixOne for d = 1000 * count / loc, i.e. ln((loc + 1000 *
\* count) / loc); log1p raises ValueError ("math domain error") for d <= -1
log1p_density(count, loc) ==
    LET p == loc + 1000 * count
    IN  IF p <= 0 THEN Raise("ValueError")
        ELSE IF count = 0 THEN PyInt(0)
        ELSE IF p >= loc THEN PyInt(LnRatioGE1(p, loc))
        ELSE PyInt(0 - LnRatioGE1(loc, p))

\* round(x, 2) of the fixed-point x, in hundredths
RoundCenti(x) == (x * 100 + FixOne \div 2) \div FixOne

\* `k in totals` for a str totals: substring test on the strings of this model
StrContains(hay, needle) == hay = needle

\* `k in totals`: key of a dict, element of a list, substring of a str;
\* None and int are not iterable (TypeError)
KeyIn(k, totals) ==
    CASE IsDict(totals) -> HasKey(totals, PyStr(k))
      [] IsList(totals) -> \E i \in 1..Len(totals[2]) : totals[2][i] = PyStr(k)
      [] IsStr(totals) -> StrContains(totals[2], k)
      [] OTHER -> FALSE

LocKeys == <<"loc", "lines_of_code", "total_loc", "py_loc">>

\* the loop of _get_loc over LocKeys from position i
RECURSIVE GetLocFrom(_, _)
GetLocFrom(totals, i) ==
    IF i > Len(LocKeys) THEN PyInt(FallbackLoc)
    ELSE IF ~KeyIn(LocKeys[i], totals) THEN GetLocFrom(totals, i + 1)
    ELSE IF ~IsDict(totals) THEN Raise("AttributeError")
    ELSE LET loc == safe_int(Get(totals, LocKeys[i]), 0)
         IN  IF loc > 0 THEN PyInt(loc) ELSE GetLocFrom(totals, i + 1)

\* metrics.get("totals", {}) if isinstance(metrics, dict) else {}
TotalsOf(metrics) ==
    IF IsDict(metrics) THEN DictGet(metrics, PyStr("totals"), PyDict(<<>>))
    ELSE PyDict(<<>>)

\* _get_loc without the search: always the fallback
get_loc_Fallback(metrics) == PyInt(FallbackLoc)

get_loc(metrics) ==
    LET totals == TotalsOf(metrics)
    IN  IF IsNone(totals) \/ IsInt(totals) THEN Raise("TypeError")
        ELSE GetLocFrom(totals, 1)

Triple(low, medium, high) ==
    MkDict(<< <<"low", low>>, <<"medium", medium>>, <<"high", high>> >>)

\* the report compute_score returns for the counts, LOC and penalties
ScoreReport(low, medium, high, loc, p_low, p_med, p_high) ==
    MkDict(<<
        <<"final_score",
          PyFloat(RoundCenti(clamp(100 * FixOne - (p_low + p_med + p_high), 0,
                                   100 * FixOne)))>>,
        <<"penalty", PyFloat(RoundCenti(p_low + p_med + p_high))>>,
        <<"weights", Triple(PyFloat(100 * A_LOW), PyFloat(100 * A_MED),
                            PyFloat(100 * A_HIGH))>>,
        <<"breakdown", Triple(PyInt(low), PyInt(medium), PyInt(high))>>,
        <<"method", PyStr("density_log_v1")>>,
        <<"loc", PyInt(loc)>>,
        <<"density_per_kloc",
          Triple(PyFloat((200000 * low + loc) \div (2 * loc)),
                 PyFloat((200000 * medium + loc) \div (2 * loc)),
                 PyFloat((200000 * high + loc) \div (2 * loc)))>>,
        <<"penalty_breakdown",
          Triple(PyFloat(RoundCenti(p_low)), PyFloat(RoundCenti(p_med)),
                 PyFloat(RoundCenti(p_high)))>> >>)

\* ScorePenalties with the high penalty subtracted instead of added
ScorePenalties_HighSubtracted(low, medium, high, loc, l_low, l_med, l_high) ==
    IF IsRaise(l_low) \/ IsRaise(l_med) \/ IsRaise(l_high) THEN Raise("ValueError")
    ELSE ScoreReport(low, medium, high, loc,
                     A_LOW * l_low[2], A_MED * l_med[2], 0 - A_HIGH * l_high[2])

\* p_x = A_X * math.log1p(d_x); a log1p that raises ends the call
ScorePenalties(low, medium, high, loc, l_low, l_med, l_high) ==
    IF IsRaise(l_low) \/ IsRaise(l_med) \/ IsRaise(l_high) THEN Raise("ValueError")
    ELSE ScoreReport(low, medium, high, loc,
                     A_LOW * l_low[2], A_MED * l_med[2], A_HIGH * l_high[2])

ScoreCounts(low, medium, high, loc) ==
    ScorePenalties(low, medium, high, loc, log1p_density(low, loc),
                   log1p_density(medium, loc), log1p_density(high, loc))

\* sev.get(...) needs a dict (AttributeError otherwise); then loc = max(1, _get_loc(metrics))
ScoreFrom(sev, got_loc) ==
    IF ~IsDict(sev) THEN Raise("AttributeError")
    ELSE IF IsRaise(got_loc) THEN got_loc
    ELSE ScoreCounts(safe_int(DictGet(sev, PyStr("low"), PyInt(0)), 0),
                     safe_int(DictGet(sev, PyStr("medium"), PyInt(0)), 0),
                     safe_int(DictGet(sev, PyStr("high"), PyInt(0)), 0),
                     Max(1, got_loc[2]))

\* totals.get("by_severity", {}) if isinstance(totals, dict) else {}
SeveritiesOf(totals) ==
    IF IsDict(totals) THEN DictGet(totals, PyStr("by_severity"), PyDict(<<>>))
    ELSE PyDict(<<>>)

compute_score(metrics) == ScoreFrom(SeveritiesOf(TotalsOf(metrics)), get_loc(metrics))

----------------------------------------------------------------------------
(* runner_utils.py, flake8_runner.py, bandit_runner.py *)

FLAKE8_JSON == "raw/flake8.json"
BANDIT_JSON == "raw/bandit.json"
WARNINGS_JSON == "raw/runner_warnings.json"
RUNNER_DONE_JSON == "raw/runner_done.json"
POSTPROCESS_ERROR_JSON == "raw/postprocess_error.json"
FLAKE8_NORM_JSON == "normalized/flake8.normalized.json"
BANDIT_NORM_JSON == "normalized/bandit.normalized.json"
METRICS_JSON == "metrics/metrics.json"
SCORE_JSON == "score/score.json"

FileNames ==
    {FLAKE8_JSON, BANDIT_JSON, WARNINGS_JSON, RUNNER_DONE_JSON, POSTPROCESS_ERROR_JSON,
     FLAKE8_NORM_JSON, BANDIT_NORM_JSON, METRICS_JSON, SCORE_JSON}

\* a dict key as json.dumps writes it: int and None keys become strings
JsonKey(k) ==
    CASE IsInt(k) -> PyStr(ToString(k[2]))
      [] IsNone(k) -> PyStr("null")
      [] OTHER -> k

\* json.loads(json.dumps(v)): the document a reader of the written file gets.
\* Keys are coerced to strings; of two keys that coincide the later value wins.
\* (String keys are already distinct, so a dict of string keys keeps its items.)
RECURSIVE JsonDocument(_)
RECURSIVE JsonItems(_, _, _)
JsonItems(items, i, d) ==
    IF i > Len(items) THEN d
    ELSE JsonItems(items, i + 1,
                   DictSet(d, JsonKey(items[i][1]), JsonDocument(items[i][2])))

JsonDocument(v) ==
    CASE IsList(v) -> PyList([i \in 1..Len(v[2]) |-> JsonDocument(v[2][i])])
      [] IsDict(v) ->
            IF \A i \in 1..Len(v[2]) : IsStr(v[2][i][1])
            THEN PyDict([i \in 1..Len(v[2]) |-> <<v[2][i][1], JsonDocument(v[2][i][2])>>])
            ELSE JsonItems(v[2], 1, PyDict(<<>>))
      [] OTHER -> v

\* A workspace fs is [docs |-> file name -> stored document or Absent,
\* written |-> the files written since the current call began].

\* write_json(path, data) on workspace fs
write_json(fs, path, data) ==
    [docs |-> [fs.docs EXCEPT ![path] = JsonDocument(data)],
     written |-> fs.written \cup {path}]

\* _read_json(p): None if the file doesn't exist
read_json(fs, path) == IF fs.docs[path] = Absent THEN None ELSE fs.docs[path]

TextBlank == "  "
TextToolError == "error: unrecognized arguments"

\* str.strip() on the texts of this model
Strip(text) == IF text = TextBlank THEN "" ELSE text

\* run_command: the result dict of a process that exited with returncode
Exited(cmd, returncode, stdout, stderr) ==
    MkDict(<< <<"ok", PyBool(returncode = 0)>>,
              <<"returncode", PyInt(returncode)>>,
              <<"stdout", PyStr(stdout)>>,
              <<"stderr", PyStr(stderr)>>,
              <<"cmd", PyList(<<PyStr(cmd)>>)>> >>)

\* run_command: the result dict after subprocess.TimeoutExpired
TimedOut(cmd, timeout_sec) ==
    MkDict(<< <<"ok", PyBool(FALSE)>>,
              <<"returncode", None>>,
              <<"stdout", PyStr("")>>,
              <<"stderr", PyStr("Timeout after " \o ToString(timeout_sec) \o "s")>>,
              <<"cmd", PyList(<<PyStr(cmd)>>)>> >>)

\* run_command(cmd, timeout_sec) for each way the process can end: it exits
\* with some output, times out, or cannot be started (subprocess.run raises
\* FileNotFoundError, which run_command does not catch)
run_command(cmd, timeout_sec, stdouts) ==
    {Exited(cmd, 0, out, "") : out \in stdouts}
    \cup {Exited(cmd, 2, "", TextToolError)}
    \cup {TimedOut(cmd, timeout_sec), Raise("FileNotFoundError")}

\* {"tool": tool, "warning": warning, **result}
Warning(tool, warning, result) ==
    PyDict(MkItems(<< <<"tool", PyStr(tool)>>, <<"warning", PyStr(warning)>> >>) \o result[2])

\* the trailing `if not result["ok"] and result["stderr"].strip()` of both runners
NonZeroWarning(fs, tool, result) ==
    IF ~Get(result, "ok")[2] /\ Strip(Get(result, "stderr")[2]) # ""
    THEN write_json(fs, WARNINGS_JSON, Warning(tool, "Non-zero return", result))
    ELSE fs

\* run_flake8's handling of a non-blank stdout: unparseable output leaves
\* out_json as it was
Flake8Output(fs, result, parsed) ==
    IF IsRaise(parsed)
    THEN write_json(fs, WARNINGS_JSON, Warning("flake8", "Invalid JSON output", result))
    ELSE write_json(fs, FLAKE8_JSON, parsed)

\* run_flake8 after run_command returned `result`
run_flake8(fs, result) ==
    NonZeroWarning(IF Strip(Get(result, "stdout")[2]) # ""
                   THEN Flake8Output(fs, result, json_loads(Get(result, "stdout")[2]))
                   ELSE write_json(fs, FLAKE8_JSON, PyDict(<<>>)),
                   "flake8", result)

\* run_bandit's handling of a non-blank stdout: unparseable output writes {}
BanditOutput(fs, result, parsed) ==
    IF IsRaise(parsed)
    THEN write_json(write_json(fs, WARNINGS_JSON,
                               Warning("bandit", "Invalid JSON output", result)),
                    BANDIT_JSON, PyDict(<<>>))
    ELSE write_json(fs, BANDIT_JSON, parsed)

\* run_bandit after run_command returned `result`
run_bandit(fs, result) ==
    NonZeroWarning(IF Strip(Get(result, "stdout")[2]) # ""
                   THEN BanditOutput(fs, result, json_loads(Get(result, "stdout")[2]))
                   ELSE write_json(fs, BANDIT_JSON, PyDict(<<>>)),
                   "bandit", result)

----------------------------------------------------------------------------
(* simple_pipeline.py *)

\* postprocess_scan from the score on
PostScore(fs2, score) ==
    IF IsRaise(score) THEN [fs |-> fs2, ret |-> score]
    ELSE [fs |-> write_json(fs2, SCORE_JSON, score),
          ret |-> MkDict(<< <<"normalized_files",
                              PyList(<<PyStr(FLAKE8_NORM_JSON), PyStr(BANDIT_NORM_JSON)>>)>>,
                            <<"metrics_file", PyStr(METRICS_JSON)>>,
                            <<"score_file", PyStr(SCORE_JSON)>>,
                            <<"final_score", Get(score, "final_score")>> >>)]

\* postprocess_scan from the metrics on
PostMetrics(fs1, metrics) ==
    IF IsRaise(metrics) THEN [fs |-> fs1, ret |-> metrics]
    ELSE PostScore(write_json(fs1, METRICS_JSON, metrics), compute_score(metrics))

\* postprocess_scan once both normalizers have run: both run before the first
\* write, and every write made before an exception stays on disk
PostNormalized(fs, flake8_norm, bandit_norm) ==
    IF IsRaise(flake8_norm) THEN [fs |-> fs, ret |-> flake8_norm]
    ELSE IF IsRaise(bandit_norm) THEN [fs |-> fs, ret |-> bandit_norm]
    ELSE PostMetrics(write_json(write_json(fs, FLAKE8_NORM_JSON, flake8_norm),
                                BANDIT_NORM_JSON, bandit_norm),
                     build_metrics(<<flake8_norm, bandit_norm>>, None))

\* postprocess_scan: the workspace it leaves and what it returned or raised
postprocess_scan(fs) ==
    PostNormalized(fs,
                   normalize_flake8(PyOr(read_json(fs, FLAKE8_JSON), PyList(<<>>))),
                   normalize_bandit(PyOr(read_json(fs, BANDIT_JSON), PyDict(<<>>))))

\* the try/except around postprocess_scan
AfterPostprocess(post) ==
    IF IsRaise(post.ret)
    THEN [fs |-> write_json(post.fs, POSTPROCESS_ERROR_JSON,
                            MkDict(<< <<"error", PyStr(post.ret[2])>> >>)),
          ret |-> MkDict(<< <<"status", PyStr("FAILED")>>,
                            <<"reason", PyStr("POSTPROCESS_ERROR")>>,
                            <<"error", PyStr(post.ret[2])>> >>)]
    ELSE [fs |-> post.fs,
          ret |-> MkDict(<< <<"status", PyStr("DONE")>>, <<"postprocess", post.ret>> >>)]

\* run_tools_for_scan from run_bandit on; fs1 is the workspace run_flake8 left
AfterFlake8(fs1, bandit_result) ==
    IF IsRaise(bandit_result) THEN [fs |-> fs1, ret |-> bandit_result]
    ELSE AfterPostprocess(postprocess_scan(
             write_json(run_bandit(fs1, bandit_result), RUNNER_DONE_JSON,
                        MkDict(<< <<"status", PyStr("DONE")>> >>))))

\* run_tools_for_scan(scan_path), given what run_command returns for each
\* tool: the workspace it leaves and what it returned or raised.  An
\* exception out of a runner is not caught.
run_tools_for_scan(fs, input_exists, flake8_result, bandit_result) ==
    IF ~input_exists
    THEN [fs |-> write_json(fs, WARNINGS_JSON,
                            MkDict(<< <<"error", PyStr("input directory not found")>>,
                                      <<"input_dir", PyStr("input")>> >>)),
          ret |-> MkDict(<< <<"status", PyStr("FAILED")>>,
                            <<"reason", PyStr("NO_INPUT_DIR")>> >>)]
    ELSE IF IsRaise(flake8_result) THEN [fs |-> fs, ret |-> flake8_result]
    ELSE AfterFlake8(run_flake8(fs, flake8_result), bandit_result)

----------------------------------------------------------------------------
(* scans.py: get_scan_results *)

TextAbsPath == "/storage/scans/s1/input/a.py"

\* _to_rel_path(path_str, scan_path): a falsy value is returned as it is; a
\* path inside the scan becomes relative to it; any other value comes back as
\* str(value) (Path() of a value that is no string raises inside the try)
to_rel_path(v) ==
    IF ~Truthy(v) THEN v
    ELSE IF v = PyStr(TextAbsPath) THEN PyStr("input/a.py")
    ELSE PyStr(Format(v))

\* for it in items: if isinstance(it, dict) and key in it: it[key] = _to_rel_path(it[key])
RelPaths(items, key) ==
    [i \in 1..Len(items) |->
        IF IsDict(items[i]) /\ HasKey(items[i], PyStr(key))
        THEN DictSet(items[i], PyStr(key), to_rel_path(Get(items[i], key)))
        ELSE items[i]]

\* the loop that rebuilds raw["flake8"] under relative file names
RECURSIVE RelFlake8(_, _, _)
RelFlake8(items, i, new_flake8) ==
    IF i > Len(items) THEN new_flake8
    ELSE RelFlake8(items, i + 1,
                   DictSet(new_flake8, to_rel_path(items[i][1]),
                           IF IsList(items[i][2])
                           THEN PyList(RelPaths(items[i][2][2], "filename"))
                           ELSE items[i][2]))

\* the loop that rebuilds bandit_raw["metrics"]: only keys that are paths change
RECURSIVE RelMetricsKeys(_, _, _)
RelMetricsKeys(items, i, new_metrics) ==
    IF i > Len(items) THEN new_metrics
    ELSE RelMetricsKeys(items, i + 1,
                        DictSet(new_metrics,
                                IF items[i][1] = PyStr(TextAbsPath)
                                THEN to_rel_path(items[i][1]) ELSE items[i][1],
                                items[i][2]))

\* raw["bandit"] after the rewriting of results[].filename and of metrics
RelBanditMetrics(bandit_raw) ==
    IF IsDict(Get(bandit_raw, "metrics"))
    THEN DictSet(bandit_raw, PyStr("metrics"),
                 RelMetricsKeys(Get(bandit_raw, "metrics")[2], 1, PyDict(<<>>)))
    ELSE bandit_raw

RelBandit(bandit_raw) ==
    IF ~IsDict(bandit_raw) THEN bandit_raw
    ELSE RelBanditMetrics(
             IF IsList(Get(bandit_raw, "results"))
             THEN DictSet(bandit_raw, PyStr("results"),
                          PyList(RelPaths(Get(bandit_raw, "results")[2], "filename")))
             ELSE bandit_raw)

\* normalized[tool] after the rewriting of issues[].file
RelNormalized(norm) ==
    IF IsDict(norm) /\ IsList(Get(norm, "issues"))
    THEN DictSet(norm, PyStr("issues"), PyList(RelPaths(Get(norm, "issues")[2], "file")))
    ELSE norm

\* get_scan_results(scan_id) on a scan path that exists; ingestion.json,
\* pipeline_error.json and ai/ are written by no operation of this model
get_scan_results(fs) ==
    MkDict(<<
        <<"scan_id", PyStr("s1")>>,
        <<"status", PyStr("OK")>>,
        <<"raw", MkDict(<<
            <<"ingestion", None>>,
            <<"flake8", LET flake8 == PyOr(read_json(fs, FLAKE8_JSON), PyDict(<<>>))
                        IN  IF IsDict(flake8) THEN RelFlake8(flake8[2], 1, PyDict(<<>>))
                            ELSE flake8>>,
            <<"bandit", RelBandit(PyOr(read_json(fs, BANDIT_JSON), PyDict(<<>>)))>>,
            <<"runner_done", PyOr(read_json(fs, RUNNER_DONE_JSON), PyDict(<<>>))>>,
            <<"runner_warnings", read_json(fs, WARNINGS_JSON)>>,
            <<"pipeline_error", None>>,
            <<"postprocess_error", read_json(fs, POSTPROCESS_ERROR_JSON)>> >>)>>,
        <<"normalized", MkDict(<<
            <<"flake8", RelNormalized(PyOr(read_json(fs, FLAKE8_NORM_JSON), PyDict(<<>>)))>>,
            <<"bandit", RelNormalized(PyOr(read_json(fs, BANDIT_NORM_JSON), PyDict(<<>>)))>> >>)>>,
        <<"metrics", read_json(fs, METRICS_JSON)>>,
        <<"score", read_json(fs, SCORE_JSON)>>,
        <<"ai", MkDict(<< <<"exists", PyBool(FALSE)>> >>)>> >>)

----------------------------------------------------------------------------
(* The scan workspace: run_tools_for_scan, run any number of times *)

Idle == <<"idle">>
NotCalled == <<"not called">>

\* how many times run_tools_for_scan is run on the workspace
MaxRuns == 2

Flake8Stdouts ==
    {TextBlank, TextNotJson, TextFlake8A, TextFlake8BadCode}
BanditStdouts == {TextNotJson, TextBanditA, TextBanditBadSeverity}

Flake8Results == run_command("flake8", 120, Flake8Stdouts)
BanditResults == run_command("bandit", 180, BanditStdouts)

\* the documents a pipeline run is meant to produce
PipelineDocs ==
    {FLAKE8_JSON, BANDIT_JSON, FLAKE8_NORM_JSON, BANDIT_NORM_JSON, METRICS_JSON,
     SCORE_JSON}

\* create_scan makes input/ (TRUE); a bare scan path has none (FALSE)
Init ==
    /\ files = [f \in FileNames |-> Absent]
    /\ run = [input_exists |-> FALSE, input_seen |-> FALSE, flake8 |-> Idle,
              bandit |-> Idle, ret |-> NotCalled, written |-> {},
              results |-> NotCalled, runs |-> 0]
    /\ n_call = Idle /\ n_ret = Idle
    /\ m_call = Idle /\ m_ret = Idle /\ m_prev = Idle
    /\ s_call = Idle /\ s_ret = Idle /\ s_prev = Idle

\* paste_code: input_dir.mkdir(parents=True, exist_ok=True) and one file saved
PasteCode ==
    /\ ~run.input_exists
    /\ run' = [run EXCEPT !.input_exists = TRUE]
    /\ UNCHANGED <<files, n_call, n_ret, m_call, m_ret, m_prev, s_call, s_ret, s_prev>>

\* one whole call of run_tools_for_scan; run.input_seen records whether the
\* call found input/, run.written which files it wrote, run.results what a
\* get_scan_results call after it returned
RunToolsForScan ==
    /\ run.runs < MaxRuns
    /\ \E flake8_result \in Flake8Results, bandit_result \in BanditResults :
        LET out == run_tools_for_scan([docs |-> files, written |-> {}],
                                      run.input_exists, flake8_result, bandit_result)
        IN  /\ files' = out.fs.docs
            /\ run' = [input_exists |-> run.input_exists,
                       input_seen |-> run.input_exists,
                       flake8 |-> flake8_result,
                       bandit |-> bandit_result,
                       ret |-> out.ret,
                       written |-> out.fs.written,
                       results |-> NotCalled,
                       runs |-> run.runs + 1]
            /\ UNCHANGED <<n_call, n_ret, m_call, m_ret, m_prev, s_call, s_ret, s_prev>>

\* GET /scans/{scan_id}/results after a run (the run made the scan path)
GetScanResults ==
    /\ run.ret # NotCalled
    /\ run.results = NotCalled
    /\ run' = [run EXCEPT !.results = get_scan_results([docs |-> files, written |-> {}])]
    /\ UNCHANGED <<files, n_call, n_ret, m_call, m_ret, m_prev, s_call, s_ret, s_prev>>

Next == PasteCode \/ RunToolsForScan \/ GetScanResults

Spec == Init /\ [][Next]_vars

----------------------------------------------------------------------------
(* Calls of the pure functions on inputs drawn from bounded sets *)

MaxRawIssues == 2
MaxIssues == 3
MaxGenIssues == 22
MaxCount == 3

\* all sequences over S of length at most n
RECURSIVE SeqsUpTo(_, _)
SeqsUpTo(S, n) ==
    IF n = 0 THEN {<<>>}
    ELSE LET shorter == SeqsUpTo(S, n - 1)
         IN  shorter \cup {Append(xs, x) : xs \in {ys \in shorter : Len(ys) = n - 1}, x \in S}

\* a dict of the given fields, leaving out those whose value is Absent
RECURSIVE Present(_)
Present(pairs) ==
    IF pairs = <<>> THEN <<>>
    ELSE (IF Head(pairs)[2] = Absent THEN <<>> ELSE <<Head(pairs)>>) \o Present(Tail(pairs))

Fields(pairs) == MkDict(Present(pairs))

(* normalize_flake8 / normalize_bandit *)

\* one entry of a flake8 issue list: an issue object, or something that is not one
Flake8RawItems ==
    {Fields(<< <<"code", code>>, <<"filename", filename>>, <<"line_number", PyInt(3)>> >>) :
        code \in {Absent, PyStr("F401"), PyStr("E501"), PyStr("W291"), PyStr("C901"),
                  PyInt(5), PyList(<<PyStr("E1")>>)},
        filename \in {Absent, PyStr("b.py")}}
    \cup {PyInt(0)}

\* one entry of bandit's results: a result object, or something that is not one
BanditRawItems ==
    {Fields(<< <<"filename", PyStr("a.py")>>, <<"line_number", PyInt(3)>>,
               <<"test_id", PyStr("B101")>>, <<"issue_severity", severity>>,
               <<"issue_confidence", confidence>> >>) :
        severity \in {Absent, PyStr("HIGH"), PyStr("MEDIUM"), PyStr("low"),
                      PyList(<<PyStr("HIGH")>>)},
        confidence \in {Absent, PyStr("MEDIUM")}}
    \cup {PyStr("oops")}

RawTexts ==
    {PyStr(t) : t \in {TextNotJson, TextEmptyObject, TextEmptyArray, TextNull, TextNumber,
                       TextFlake8A, TextFlake8B, TextFlake8BadCode, TextBanditA, TextBanditB}}

Flake8Raws ==
    {None, PyInt(3), PyDict(<<>>), MkDict(<< <<"a.py", PyStr("oops")>> >>)}
    \cup RawTexts
    \cup {MkDict(<< <<"a.py", PyList(xs)>> >>) : xs \in SeqsUpTo(Flake8RawItems, MaxRawIssues)}
    \cup {PyList(xs) : xs \in SeqsUpTo(Flake8RawItems, MaxRawIssues)}
    \cup {DocFlake8A, DocFlake8B, PyDict(DocFlake8A[2] \o DocFlake8B[2])}

BanditRaws ==
    {None, PyInt(3), PyDict(<<>>), MkDict(<< <<"results", PyStr("oops")>> >>),
     PyList(<<>>)}
    \cup RawTexts
    \cup {MkDict(<< <<"results", PyList(xs)>> >>) : xs \in SeqsUpTo(BanditRawItems, MaxRawIssues)}
    \cup {DocBanditA, DocBanditB}

NormalizeCalls ==
    {<<"flake8", raw>> : raw \in Flake8Raws} \cup {<<"bandit", raw>> : raw \in BanditRaws}

InitNormalize ==
    /\ n_call \in NormalizeCalls
    /\ n_ret = NotCalled
    /\ files = Idle /\ run = Idle
    /\ m_call = Idle /\ m_ret = Idle /\ m_prev = Idle
    /\ s_call = Idle /\ s_ret = Idle /\ s_prev = Idle

NormalizeFlake8 ==
    /\ n_ret = NotCalled
    /\ n_call[1] = "flake8"
    /\ n_ret' = normalize_flake8(n_call[2])
    /\ UNCHANGED <<n_call, m_call, m_ret, m_prev, s_call, s_ret, s_prev, files, run>>

NormalizeBandit ==
    /\ n_ret = NotCalled
    /\ n_call[1] = "bandit"
    /\ n_ret' = normalize_bandit(n_call[2])
    /\ UNCHANGED <<n_call, m_call, m_ret, m_prev, s_call, s_ret, s_prev, files, run>>

NextNormalize == NormalizeFlake8 \/ NormalizeBandit

SpecNormalize == InitNormalize /\ [][NextNormalize]_vars

(* build_metrics *)

\* one entry of an issue list: issues of known and unknown tools and
\* severities, the issue normalize_flake8 emits (no tool, no severity), issues
\* whose fields hold values of unexpected types, and entries that are not mappings
MetricIssues ==
    {Fields(<< <<"tool", PyStr("flake8")>>, <<"severity", PyStr("medium")>>,
               <<"rule_id", PyStr("F401")>>, <<"file", PyStr("a.py")>> >>),
     Fields(<< <<"tool", PyStr("bandit")>>, <<"severity", PyStr("HIGH")>>,
               <<"rule_id", PyStr("B101")>>, <<"file", PyStr("a.py")>> >>),
     Fields(<< <<"tool", PyStr("FLAKE8")>>, <<"severity", PyStr("low")>>,
               <<"code", PyStr("E501")>>, <<"file", PyStr("b.py")>> >>),
     Fields(<< <<"tool", PyStr("semgrep")>>, <<"severity", PyStr("critical")>>,
               <<"rule_id", PyStr("X1")>>, <<"file", PyStr("c.py")>> >>),
     Fields(<< <<"file", PyStr("a.py")>>, <<"line", PyInt(1)>>, <<"code", PyStr("F401")>> >>),
     Fields(<< <<"tool", PyInt(5)>>, <<"file", PyStr("a.py")>> >>),
     Fields(<< <<"tool", PyStr("bandit")>>, <<"severity", PyStr("low")>>,
               <<"file", PyList(<<PyStr("a.py")>>)>> >>),
     PyStr("oops"),
     None}

\* the i-th of a run of well-formed issues spread over nf files and nr rules
GenIssue(i, nf, nr) ==
    Fields(<< <<"tool", PyStr(IF i % 2 = 0 THEN "flake8" ELSE "bandit")>>,
              <<"severity", PyStr(CASE i % 3 = 0 -> "low" [] i % 3 = 1 -> "medium"
                                    [] OTHER -> "high")>>,
              <<"rule_id", PyStr("R" \o ToString(i % nr))>>,
              <<"file", PyStr("f" \o ToString(i % nf) \o ".py")>> >>)

GenIssues(n, nf, nr) == [i \in 1..n |-> GenIssue(i, nf, nr)]

\* issue lists: every short list over MetricIssues, and long lists with up to
\* MaxGenIssues issues in few or many files and rules
IssueLists ==
    SeqsUpTo(MetricIssues, MaxIssues)
    \cup {GenIssues(n, nf, nr) : n \in 0..MaxGenIssues, nf \in {1, 6, MaxGenIssues},
                                 nr \in {1, MaxGenIssues}}

\* normalized objects as postprocess_scan passes them, and malformed ones
NormObjects ==
    {normalize_flake8(DocFlake8A), normalize_flake8(DocFlake8B),
     normalize_bandit(DocBanditA), normalize_bandit(DocBanditB),
     MkDict(<< <<"tool", PyStr("flake8")>>,
               <<"issues", PyList(<<GenIssue(1, 2, 2), PyStr("oops"), GenIssue(2, 2, 2)>>)>> >>),
     MkDict(<< <<"tool", PyStr("bandit")>>, <<"issues", PyList(<<GenIssue(3, 2, 2)>>)>>,
               <<"loc", PyInt(120)>> >>),
     MkDict(<< <<"tool", PyStr("semgrep")>>, <<"issues", PyList(<<GenIssue(1, 2, 2)>>)>> >>),
     MkDict(<< <<"tool", PyList(<<PyStr("x")>>)>>, <<"issues", PyList(<<>>)>> >>),
     PyStr("oops")}

\* a call build_metrics(norm_objects, unified_issues)
MetricsCalls ==
    {<<<<>>, PyList(xs)>> : xs \in IssueLists}
    \cup {<<objs, None>> : objs \in SeqsUpTo(NormObjects, 2)}

InitMetrics ==
    /\ m_call \in MetricsCalls
    /\ m_ret = NotCalled
    /\ m_prev = NotCalled
    /\ files = Idle /\ run = Idle
    /\ n_call = Idle /\ n_ret = Idle
    /\ s_call = Idle /\ s_ret = Idle /\ s_prev = Idle

BuildMetrics ==
    /\ m_ret = NotCalled
    /\ m_ret' = build_metrics(m_call[1], m_call[2])
    /\ UNCHANGED <<m_call, m_prev, n_call, n_ret, s_call, s_ret, s_prev, files, run>>

\* some rearrangements of xs: its reversal and every exchange of two neighbours
Rearranged(xs) ==
    {[k \in 1..Len(xs) |-> xs[Len(xs) + 1 - k]]}
    \cup {[k \in 1..Len(xs) |-> IF k = i THEN xs[i + 1] ELSE IF k = i + 1 THEN xs[i] ELSE xs[k]] :
            i \in 1..(Len(xs) - 1)}

\* a second call with the same issues in another order
BuildMetricsRearranged ==
    /\ m_ret # NotCalled
    /\ m_prev = NotCalled
    /\ IsList(m_call[2])
    /\ \E ys \in Rearranged(m_call[2][2]) :
          /\ ys # m_call[2][2]
          /\ m_call' = <<m_call[1], PyList(ys)>>
          /\ m_ret' = build_metrics(m_call[1], PyList(ys))
    /\ m_prev' = m_ret
    /\ UNCHANGED <<n_call, n_ret, s_call, s_ret, s_prev, files, run>>

NextMetrics == BuildMetrics \/ BuildMetricsRearranged

SpecMetrics == InitMetrics /\ [][NextMetrics]_vars

(* compute_score *)

\* a severity count as metrics.json may hold it, or a value that is no count
CountValues ==
    {Absent, None, PyStr("abc")} \cup {PyInt(c) : c \in -2..MaxCount}

LocValues ==
    {Absent, None, PyStr("abc"), PyInt(-5), PyInt(0), PyInt(1), PyInt(500),
     PyInt(1000), PyInt(2000)}

\* {"totals": {"by_severity": {"low": .., "medium": .., "high": ..}, "loc": ..}}
MetricsWith(low, medium, high, loc) ==
    MkDict(<< <<"totals",
                Fields(<< <<"by_severity",
                            Fields(<< <<"low", low>>, <<"medium", medium>>,
                                      <<"high", high>> >>)>>,
                          <<"loc", loc>> >>)>> >>)

\* metrics values whose totals or by_severity is absent or not a mapping
OddMetrics ==
    {None, PyInt(3), PyDict(<<>>)}
    \cup {MkDict(<< <<"totals", totals>> >>) :
            totals \in {None, PyInt(3), PyList(<<>>), PyList(<<PyStr("loc")>>), PyStr("loc"),
                        PyDict(<<>>),
                        MkDict(<< <<"lines_of_code", PyInt(500)>> >>),
                        MkDict(<< <<"loc", PyInt(0)>>, <<"py_loc", PyInt(2000)>> >>)}}
    \cup {MkDict(<< <<"totals", Fields(<< <<"by_severity", sev>>, <<"loc", loc>> >>)>> >>) :
            sev \in {None, PyList(<<>>), PyInt(3)}, loc \in {Absent, PyInt(500)}}

ScoreCalls ==
    OddMetrics
    \cup {MetricsWith(low, medium, high, loc) :
            low \in CountValues, medium \in CountValues, high \in CountValues,
            loc \in LocValues}

InitScore ==
    /\ s_call \in ScoreCalls
    /\ s_ret = NotCalled
    /\ s_prev = NotCalled
    /\ files = Idle /\ run = Idle
    /\ n_call = Idle /\ n_ret = Idle
    /\ m_call = Idle /\ m_ret = Idle /\ m_prev = Idle

ComputeScore ==
    /\ s_ret = NotCalled
    /\ s_ret' = compute_score(s_call)
    /\ UNCHANGED <<s_call, s_prev, n_call, n_ret, m_call, m_ret, m_prev, files, run>>

Severities == {"low", "medium", "high"}

\* the count of severity k in metrics, when totals and by_severity are mappings
\* and the count is an int; Absent otherwise
CountOf(metrics, k) ==
    IF IsDict(metrics) /\ IsDict(Get(metrics, "totals"))
       /\ IsDict(Get(Get(metrics, "totals"), "by_severity"))
       /\ IsInt(Get(Get(Get(metrics, "totals"), "by_severity"), k))
    THEN Get(Get(Get(metrics, "totals"), "by_severity"), k)
    ELSE Absent

\* metrics with the count of severity k replaced by c, all else the same
WithCount(metrics, k, c) ==
    LET totals == Get(metrics, "totals")
    IN  DictSet(metrics, PyStr("totals"),
                DictSet(totals, PyStr("by_severity"),
                        DictSet(Get(totals, "by_severity"), PyStr(k), PyInt(c))))

\* a second call on the same metrics with one severity count larger
IncreaseCount ==
    /\ s_ret # NotCalled
    /\ s_prev = NotCalled
    /\ \E k \in Severities :
          /\ CountOf(s_call, k) # Absent
          /\ \E c \in (CountOf(s_call, k)[2] + 1)..MaxCount :
                /\ s_call' = WithCount(s_call, k, c)
                /\ s_ret' = compute_score(WithCount(s_call, k, c))
    /\ s_prev' = s_ret
    /\ UNCHANGED <<n_call, n_ret, m_call, m_ret, m_prev, files, run>>

NextScore == ComputeScore \/ IncreaseCount

SpecScore == InitScore /\ [][NextScore]_vars

----------------------------------------------------------------------------
(* Properties of build_metrics (SpecMetrics) *)

MetricsReturned == m_ret # NotCalled /\ IsDict(m_ret)

\* C1: whenever build_metrics returns, whatever the issue list held (any mix
\* of tools, severities, files and entries that are not mappings),
\* totals.issues equals the sum of totals.by_severity and the sum of
\* totals.by_tool.
C1_TotalsConsistent ==
    MetricsReturned =>
        LET totals == Get(m_ret, "totals")
        IN  /\ Get(totals, "issues")[2] = SumValues(Get(totals, "by_severity")[2], 1)
            /\ Get(totals, "issues")[2] = SumValues(Get(totals, "by_tool")[2], 1)

\* a returned call whose list mixed an unknown tool with an unknown severity,
\* a known tool and an entry that is not a mapping
C1_MixedListCounted ==
    /\ MetricsReturned
    /\ IsList(m_call[2])
    /\ \E i \in 1..Len(m_call[2][2]) : m_call[2][2][i] = PyStr("oops")
    /\ HasKey(Get(Get(m_ret, "totals"), "by_tool"), PyStr("semgrep"))
    /\ Get(Get(Get(m_ret, "totals"), "by_tool"), "flake8") = PyInt(1)
    /\ Get(Get(m_ret, "totals"), "issues") = PyInt(2)

\* C8: whenever build_metrics returns, top_refactor_priority has at most 5
\* entries, most_recurring_issues at most 10 and top_files at most 20, however
\* many issues, files and rules the list had.
C8_ListsTruncated ==
    MetricsReturned =>
        /\ Len(Get(m_ret, "top_refactor_priority")[2]) <= 5
        /\ Len(Get(m_ret, "most_recurring_issues")[2]) <= 10
        /\ Len(Get(m_ret, "top_files")[2]) <= 20

\* a returned call over more than 20 files and rules, all three lists full
C8_ManyFilesTruncated ==
    /\ MetricsReturned
    /\ Len(Get(m_ret, "heatmap")[2]) > 20
    /\ Get(Get(m_ret, "totals"), "issues")[2] > 20
    /\ Len(Get(m_ret, "top_refactor_priority")[2]) = 5
    /\ Len(Get(m_ret, "most_recurring_issues")[2]) = 10
    /\ Len(Get(m_ret, "top_files")[2]) = 20

----------------------------------------------------------------------------
(* Properties of compute_score (SpecScore) *)

ScoreCalled == s_ret # NotCalled /\ s_ret # Idle

FinalScore(report) == Get(report, "final_score")[2]

\* by_severity of metrics when totals and by_severity are mappings (an absent
\* by_severity is the empty mapping); Absent otherwise
CountsOf(metrics) ==
    IF IsDict(metrics) /\ IsDict(Get(metrics, "totals"))
       /\ IsDict(DictGet(Get(metrics, "totals"), PyStr("by_severity"), PyDict(<<>>)))
    THEN DictGet(Get(metrics, "totals"), PyStr("by_severity"), PyDict(<<>>))
    ELSE Absent

\* metrics is a mapping whose totals is absent, or a mapping whose by_severity
\* is absent or maps low, medium and high (those present) to integers
IntegerCounts(metrics) ==
    /\ IsDict(metrics)
    /\ \/ ~HasKey(metrics, PyStr("totals"))
       \/ /\ CountsOf(metrics) # Absent
          /\ \A k \in Severities :
                IsInt(DictGet(CountsOf(metrics), PyStr(k), PyInt(0)))

\* metrics with every negative count replaced by zero
RECURSIVE NegativesAsZero(_, _)
NegativesAsZero(metrics, ks) ==
    IF ks = {} THEN metrics
    ELSE LET k == CHOOSE x \in ks : TRUE
             rest == NegativesAsZero(metrics, ks \ {k})
         IN  IF CountOf(metrics, k) # Absent /\ CountOf(metrics, k)[2] < 0
             THEN WithCount(rest, k, 0)
             ELSE rest

\* C2: for every metrics input with integer counts, negative ones included,
\* or with no totals entry, compute_score returns a report whose final_score
\* lies in [0.0, 100.0], and a negative count scores as a zero count does.
C2_ScoreInBounds ==
    (ScoreCalled /\ IntegerCounts(s_call)) =>
        /\ IsDict(s_ret)
        /\ FinalScore(s_ret) >= 0
        /\ FinalScore(s_ret) <= 10000
        /\ Get(s_ret, "penalty") =
              Get(compute_score(NegativesAsZero(s_call, Severities)), "penalty")

\* C3: compute_score returns a score report and raises nothing, whatever the
\* metrics value: totals absent or not a mapping, by_severity not a mapping,
\* counts non-numeric or negative, LOC absent, zero or non-numeric.
C3_NeverFails ==
    ScoreCalled => (IsDict(s_ret) /\ HasKey(s_ret, PyStr("final_score")))

\* C4: when compute_score returned for some metrics and is called again on
\* the same metrics (same LOC) with one severity count larger, it returns
\* again and the second final_score is at most the first.
C4_Monotone ==
    IsDict(s_prev) => (IsDict(s_ret) /\ FinalScore(s_ret) <= FinalScore(s_prev))

\* a count was increased and the score went strictly down, without reaching 0
C4_ScoreDecreased ==
    /\ IsDict(s_prev)
    /\ IsDict(s_ret)
    /\ FinalScore(s_ret) < FinalScore(s_prev)
    /\ FinalScore(s_ret) > 0

\* C5: when the low, medium and high counts are all zero, compute_score
\* returns final_score 100.0 and penalty 0.0, whatever the LOC entry is.
ZeroCounts(metrics) ==
    /\ CountsOf(metrics) # Absent
    /\ \A k \in Severities : DictGet(CountsOf(metrics), PyStr(k), PyInt(0)) = PyInt(0)

C5_ZeroIssuesScore ==
    (ScoreCalled /\ ZeroCounts(s_call)) =>
        /\ IsDict(s_ret)
        /\ Get(s_ret, "final_score") = PyFloat(10000)
        /\ Get(s_ret, "penalty") = PyFloat(0)

\* a returned call with three zero counts and a LOC entry of zero
C5_ZeroIssuesZeroLoc ==
    /\ ScoreCalled
    /\ ZeroCounts(s_call)
    /\ \A k \in Severities : CountOf(s_call, k) = PyInt(0)
    /\ Get(Get(s_call, "totals"), "loc") = PyInt(0)
    /\ IsDict(s_ret)
    /\ Get(s_ret, "loc") = PyInt(FallbackLoc)

----------------------------------------------------------------------------
(* Properties of normalize_flake8 and normalize_bandit (SpecNormalize) *)

NormalizeReturned == n_ret # NotCalled /\ IsDict(n_ret)

\* the first character of a rule code of this model, "" for a value that is
\* no string
CodePrefix(code) ==
    CASE code = PyStr("F401") -> "F"
      [] code = PyStr("E501") -> "E"
      [] code = PyStr("W291") -> "W"
      [] code = PyStr("C901") -> "C"
      [] OTHER -> ""

\* the category and severity the rule-code prefix stands for
CategoryOfCode(code) ==
    CASE CodePrefix(code) = "F" -> "bug_risk"
      [] CodePrefix(code) = "C" -> "maintainability"
      [] OTHER -> "style"

SeverityOfCode(code) == IF CodePrefix(code) = "F" THEN "medium" ELSE "low"

\* how many of the issues have a code starting with F
RECURSIVE CountFCodes(_, _)
CountFCodes(issues, i) ==
    IF i > Len(issues) THEN 0
    ELSE (IF CodePrefix(Get(issues[i], "code")) = "F" THEN 1 ELSE 0)
         + CountFCodes(issues, i + 1)

\* C6: every issue normalize_flake8 returns carries the category and the
\* severity its rule-code prefix stands for (F: bug_risk/medium, E or W:
\* style/low, C: maintainability/low, anything else: style/low), and
\* build_metrics counts the F-coded issues of the document as medium.
C6_Flake8Classified ==
    (NormalizeReturned /\ n_call[1] = "flake8") =>
        LET issues == Get(n_ret, "issues")[2]
        IN  /\ \A i \in 1..Len(issues) :
                  /\ Get(issues[i], "category") = PyStr(CategoryOfCode(Get(issues[i], "code")))
                  /\ Get(issues[i], "severity") = PyStr(SeverityOfCode(Get(issues[i], "code")))
            /\ Get(Get(Get(build_metrics(<<n_ret>>, None), "totals"), "by_severity"), "medium")
                  = PyInt(CountFCodes(issues, 1))

\* the severity or confidence specified for a result's field: the
\* field lower-cased, low when the field is absent
LowerOrLow(r, field) ==
    IF HasKey(r, PyStr(field)) THEN PyStr(Lower(Get(r, field)[2])) ELSE PyStr("low")

\* the results of a bandit raw input that are objects whose severity and
\* confidence are strings or absent; <<>> when the input has no results list
BanditResultsOf(raw) ==
    IF IsDict(raw) /\ IsList(Get(raw, "results")) THEN DictsOf(Get(raw, "results")[2], 1)
    ELSE <<>>

PlainResults(results) ==
    \A i \in 1..Len(results) :
        /\ IsStr(DictGet(results[i], PyStr("issue_severity"), PyStr("")))
        /\ IsStr(DictGet(results[i], PyStr("issue_confidence"), PyStr("")))

\* C7: normalize_bandit returns one issue per result, whose severity and
\* confidence are the result's issue_severity and issue_confidence
\* lower-cased (low when absent) and whose file and line are the result's
\* filename and line_number.
C7_BanditLowerCased ==
    (NormalizeReturned /\ n_call[1] = "bandit"
        /\ PlainResults(BanditResultsOf(ParseIfStr(n_call[2])))) =>
        LET results == BanditResultsOf(ParseIfStr(n_call[2]))
            issues == Get(n_ret, "issues")[2]
        IN  /\ Len(issues) = Len(results)
            /\ \A i \in 1..Len(results) :
                  /\ Get(issues[i], "severity") = LowerOrLow(results[i], "issue_severity")
                  /\ Get(issues[i], "confidence") = LowerOrLow(results[i], "issue_confidence")
                  /\ Get(issues[i], "file") = Get(results[i], "filename")
                  /\ Get(issues[i], "line") = Get(results[i], "line_number")

NormalizeCalled == n_ret # NotCalled /\ n_ret # Idle

\* raw input that is absent, unparseable, empty or of no recognised shape
UnrecognisedRaws ==
    {None, PyInt(3), PyDict(<<>>), PyStr(TextNotJson), PyStr(TextEmptyObject),
     PyStr(TextNull), PyStr(TextNumber)}

\* C9: neither normalizer raises, whatever the raw input is, and an absent,
\* unparseable or unrecognised input gives a document with an empty issues
\* list and counts.total 0.
C9_NormalizeNeverRaises ==
    NormalizeCalled =>
        /\ IsDict(n_ret)
        /\ n_call[2] \in UnrecognisedRaws =>
              /\ Get(n_ret, "issues") = PyList(<<>>)
              /\ Get(Get(n_ret, "counts"), "total") = PyInt(0)

----------------------------------------------------------------------------
(* Properties of the scan workspace (Spec) *)

\* what the last run's tool outputs give on a workspace with no artifacts
FreshRun ==
    run_tools_for_scan([docs |-> [f \in FileNames |-> Absent], written |-> {}],
                       run.input_seen, run.flake8, run.bandit)

\* C10: after every return of run_tools_for_scan, a re-run included, each of
\* the raw, normalized, metrics and score documents in the workspace was
\* written by this run and is what this run's tool outputs alone give: no
\* document of an earlier run is left.
C10_ArtifactsOfCurrentRun ==
    IsDict(run.ret) =>
        \A f \in PipelineDocs :
            /\ files[f] # Absent => f \in run.written
            /\ files[f] = FreshRun.fs.docs[f]

\* the last call of run_tools_for_scan returned with post-processing done
RunDone == IsDict(run.ret) /\ Get(run.ret, "status") = PyStr("DONE")

\* metrics._totals.loc of a raw bandit document, Absent when it has none
RawBanditLoc(raw) ==
    IF IsDict(raw) /\ IsDict(Get(raw, "metrics"))
       /\ IsDict(Get(Get(raw, "metrics"), "_totals"))
       /\ HasKey(Get(Get(raw, "metrics"), "_totals"), PyStr("loc"))
    THEN Get(Get(Get(raw, "metrics"), "_totals"), "loc")
    ELSE Absent

\* C11: after a run whose post-processing completed, totals.loc of
\* metrics.json is metrics._totals.loc of raw/bandit.json when that field is
\* present, and zero when it is not.
C11_LocFromBandit ==
    RunDone =>
        Get(Get(files[METRICS_JSON], "totals"), "loc") =
            (IF RawBanditLoc(files[BANDIT_JSON]) = Absent THEN PyInt(0)
             ELSE RawBanditLoc(files[BANDIT_JSON]))

\* a tool that could not be started, timed out, exited non-zero or printed
\* text that is not JSON
ToolFailed(result) ==
    \/ IsRaise(result)
    \/ ~Get(result, "ok")[2]
    \/ /\ Strip(Get(result, "stdout")[2]) # ""
       /\ IsRaise(json_loads(Get(result, "stdout")[2]))

\* the last call of run_tools_for_scan met a failure: no input directory, a
\* failed tool, or an exception during post-processing
RunFailed ==
    /\ run.ret # NotCalled
    /\ \/ ~run.input_seen
       \/ ToolFailed(run.flake8)
       \/ ToolFailed(run.bandit)
       \/ IsRaise(run.ret)
       \/ Get(run.ret, "status") = PyStr("FAILED")

\* C12: a call of run_tools_for_scan that met a failure returned normally and
\* wrote runner_warnings.json or postprocess_error.json under raw/, and a
\* get_scan_results call after it returned the results without raising.
C12_FailuresLeaveArtifacts ==
    RunFailed =>
        /\ IsDict(run.ret)
        /\ WARNINGS_JSON \in run.written \/ POSTPROCESS_ERROR_JSON \in run.written
        /\ run.results # NotCalled => IsDict(run.results)

----------------------------------------------------------------------------
(* Further properties of build_metrics (SpecMetrics) *)

\* a call build_metrics(norm_objects, unified_issues) with an issue list, done
ListCalled == m_ret # NotCalled /\ m_ret # Idle /\ IsList(m_call[2])

\* C13: for every issue list build_metrics returns, and its result is its
\* result on the same list with the entries that are not mappings removed.
C13_NonMappingsSkipped ==
    ListCalled =>
        /\ IsDict(m_ret)
        /\ m_ret = build_metrics(m_call[1], PyList(DictsOf(m_call[2][2], 1)))

----------------------------------------------------------------------------
(* Further properties of the pipeline (Spec) *)

\* the number of issues in a normalized document on disk
IssuesIn(name) == Len(Get(files[name], "issues")[2])

\* C15: after a run whose post-processing completed, totals.by_tool of
\* metrics.json counts every normalized issue under its own tool: flake8 is
\* the number of issues in the normalized flake8 document, bandit the number
\* in the normalized bandit document, and by_tool has no other key.
C15_CountedUnderOwnTool ==
    RunDone =>
        LET by_tool == Get(Get(files[METRICS_JSON], "totals"), "by_tool")
        IN  /\ Get(by_tool, "flake8") = PyInt(IssuesIn(FLAKE8_NORM_JSON))
            /\ Get(by_tool, "bandit") = PyInt(IssuesIn(BANDIT_NORM_JSON))
            /\ Len(by_tool[2]) = 2

----------------------------------------------------------------------------
(* Rankings of build_metrics (SpecMetrics) *)

\* 10*high + 4*medium + 1*low of a heatmap row
RowRisk(row) ==
    10 * Get(row, "high")[2] + 4 * Get(row, "medium")[2] + Get(row, "low")[2]

\* the files named by the entries of a ranking list
RankedFiles(entries) == {Get(entries[i], "file") : i \in 1..Len(entries)}

\* C16: whenever build_metrics returns, every entry of top_refactor_priority
\* has risk_score = 10*high + 4*medium + 1*low of its file's heatmap row, the
\* entries are in non-increasing risk_score order, and no file left out of the
\* list has a risk score strictly greater than that of an entry in it.
C16_TopOfRiskRanking ==
    MetricsReturned =>
        LET top == Get(m_ret, "top_refactor_priority")[2]
            heatmap == Get(m_ret, "heatmap")
        IN  /\ \A i \in 1..Len(top) :
                  /\ HasKey(heatmap, Get(top[i], "file"))
                  /\ Get(top[i], "risk_score")[2]
                        = RowRisk(DictGet(heatmap, Get(top[i], "file"), None))
            /\ \A i \in 1..Len(top), j \in 1..Len(top) :
                  i < j => Get(top[i], "risk_score")[2] >= Get(top[j], "risk_score")[2]
            /\ \A k \in 1..Len(heatmap[2]) :
                  heatmap[2][k][1] \notin RankedFiles(top) =>
                      \A i \in 1..Len(top) :
                          RowRisk(heatmap[2][k][2]) <= Get(top[i], "risk_score")[2]

\* a returned call over more than five files of different risk: the list is
\* full, its first entry outranks its last, and a file of lower risk is left out
C16_RiskierFilesListed ==
    /\ MetricsReturned
    /\ LET top == Get(m_ret, "top_refactor_priority")[2]
           heatmap == Get(m_ret, "heatmap")
       IN  /\ Len(heatmap[2]) > 5
           /\ Len(top) = 5
           /\ Get(top[1], "risk_score")[2] > Get(top[5], "risk_score")[2]
           /\ Get(top[1], "medium")[2] + Get(top[1], "high")[2] > 0
           /\ \E k \in 1..Len(heatmap[2]) :
                 /\ heatmap[2][k][1] \notin RankedFiles(top)
                 /\ RowRisk(heatmap[2][k][2]) < Get(top[5], "risk_score")[2]

\* the three ranking lists of a build_metrics result
Rankings(report) ==
    <<Get(report, "top_refactor_priority"), Get(report, "top_files"),
      Get(report, "most_recurring_issues")>>

\* C17: when build_metrics has returned for an issue list and for a
\* rearrangement of the same list, the two results have the same three ranking
\* lists, with the same members in the same order.
C17_RankingsReproducible ==
    (IsDict(m_prev) /\ IsDict(m_ret)) => Rankings(m_ret) = Rankings(m_prev)

\* the keys of a dict
KeysOf(d) == {d[2][i][1] : i \in 1..Len(d[2])}

SeverityKeys == {PyStr("low"), PyStr("medium"), PyStr("high")}

\* the level an issue is to be counted under: its severity in lower case when
\* that is medium or high, low otherwise
IssueLevel(it) ==
    LET sev == Get(it, "severity")
    IN  IF IsStr(sev) /\ Lower(sev[2]) \in {"medium", "high"} THEN Lower(sev[2]) ELSE "low"

\* the number of mappings in xs to be counted under level s
IssuesAtLevel(xs, s) ==
    Cardinality({i \in 1..Len(xs) : IsDict(xs[i]) /\ IssueLevel(xs[i]) = s})

\* C18: whenever build_metrics returns, the empty list included,
\* totals.by_severity and every heatmap row have exactly the keys low, medium
\* and high, totals.by_tool contains flake8 and bandit, and each severity
\* counter is the number of issues of that level, an issue whose severity is
\* absent or no known level being counted as low.
C18_SeverityKeysFixed ==
    MetricsReturned =>
        LET totals == Get(m_ret, "totals")
            heatmap == Get(m_ret, "heatmap")
        IN  /\ KeysOf(Get(totals, "by_severity")) = SeverityKeys
            /\ Len(Get(totals, "by_severity")[2]) = 3
            /\ \A k \in 1..Len(heatmap[2]) :
                  /\ KeysOf(heatmap[2][k][2]) = SeverityKeys
                  /\ Len(heatmap[2][k][2][2]) = 3
            /\ HasKey(Get(totals, "by_tool"), PyStr("flake8"))
            /\ HasKey(Get(totals, "by_tool"), PyStr("bandit"))
            /\ IsList(m_call[2]) =>
                  \A s \in {"low", "medium", "high"} :
                      Get(Get(totals, "by_severity"), s) = PyInt(IssuesAtLevel(m_call[2][2], s))

\* a returned call whose list held an issue of severity "critical", an issue
\* without severity and an issue of severity "HIGH": two counted low, one high
C18_UnknownCountedLow ==
    /\ MetricsReturned
    /\ IsList(m_call[2])
    /\ \E i, j, k \in 1..Len(m_call[2][2]) :
          /\ IsDict(m_call[2][2][i]) /\ IsDict(m_call[2][2][j]) /\ IsDict(m_call[2][2][k])
          /\ Get(m_call[2][2][i], "severity") = PyStr("critical")
          /\ ~HasKey(m_call[2][2][j], PyStr("severity"))
          /\ Get(m_call[2][2][k], "severity") = PyStr("HIGH")
    /\ Get(Get(Get(m_ret, "totals"), "by_severity"), "low") = PyInt(2)
    /\ Get(Get(Get(m_ret, "totals"), "by_severity"), "high") = PyInt(1)
    /\ Get(Get(Get(m_ret, "totals"), "by_tool"), "flake8") = PyInt(0)

----------------------------------------------------------------------------
(* The LOC of compute_score (SpecScore) *)

\* compute_score returned a report for a metrics mapping whose totals is a mapping
ScoredTotals == IsDict(s_ret) /\ IsDict(s_call) /\ IsDict(TotalsOf(s_call))

\* totals[k] converted to an integer, zero when the key is absent
LocUnder(totals, k) ==
    IF HasKey(totals, PyStr(k)) THEN safe_int(Get(totals, k), 0) ELSE 0

\* C19: the loc compute_score reports is max(1, L), where L is totals.loc
\* when that is present and non-zero and 1000 otherwise.
C19_LocOrFallback ==
    ScoredTotals =>
        LET L == IF LocUnder(TotalsOf(s_call), "loc") # 0
                 THEN LocUnder(TotalsOf(s_call), "loc") ELSE 1000
        IN  Get(s_ret, "loc") = PyInt(Max(1, L))

\* C19 amended: the loc compute_score reports is the first of totals.loc,
\* totals.lines_of_code, totals.total_loc and totals.py_loc that converts to a
\* positive integer, and 1000 when none does; it is at least 1.
C19_FirstPositiveLoc ==
    ScoredTotals =>
        LET totals == TotalsOf(s_call)
            L == IF LocUnder(totals, "loc") > 0 THEN LocUnder(totals, "loc")
                 ELSE IF LocUnder(totals, "lines_of_code") > 0
                      THEN LocUnder(totals, "lines_of_code")
                 ELSE IF LocUnder(totals, "total_loc") > 0 THEN LocUnder(totals, "total_loc")
                 ELSE IF LocUnder(totals, "py_loc") > 0 THEN LocUnder(totals, "py_loc")
                 ELSE 1000
        IN  /\ Get(s_ret, "loc") = PyInt(L)
            /\ L >= 1

\* a report for totals with loc = 0 and py_loc = 2000: the loc reported is 2000
C19_LaterKeyUsed ==
    /\ ScoredTotals
    /\ Get(TotalsOf(s_call), "loc") = PyInt(0)
    /\ Get(TotalsOf(s_call), "py_loc") = PyInt(2000)
    /\ Get(s_ret, "loc") = PyInt(2000)

----------------------------------------------------------------------------
(* Per-file views of build_metrics (SpecMetrics) *)

\* the sum of row[s] over the rows of the heatmap from position i
RECURSIVE HeatmapSum(_, _, _)
HeatmapSum(heatmap, s, i) ==
    IF i > Len(heatmap[2]) THEN 0
    ELSE Get(heatmap[2][i][2], s)[2] + HeatmapSum(heatmap, s, i + 1)

\* the entry names a file of the heatmap and repeats that file's row
RepeatsRow(entry, heatmap) ==
    /\ HasKey(heatmap, Get(entry, "file"))
    /\ \A s \in {"low", "medium", "high"} :
          Get(entry, s) = Get(DictGet(heatmap, Get(entry, "file"), None), s)

RowTotal(entry) == Get(entry, "low")[2] + Get(entry, "medium")[2] + Get(entry, "high")[2]

\* C20: whenever build_metrics returns, for each severity the heatmap rows sum
\* to totals.by_severity, every top_files entry repeats its file's heatmap row
\* and has issues = low + medium + high, and every top_refactor_priority entry
\* repeats its file's row and has total = low + medium + high.
C20_PerFileViewsAgree ==
    MetricsReturned =>
        LET heatmap == Get(m_ret, "heatmap")
            top_files == Get(m_ret, "top_files")[2]
            top == Get(m_ret, "top_refactor_priority")[2]
        IN  /\ \A s \in {"low", "medium", "high"} :
                  HeatmapSum(heatmap, s, 1) = Get(Get(Get(m_ret, "totals"), "by_severity"), s)[2]
            /\ \A i \in 1..Len(top_files) :
                  /\ RepeatsRow(top_files[i], heatmap)
                  /\ Get(top_files[i], "issues")[2] = RowTotal(top_files[i])
            /\ \A i \in 1..Len(top) :
                  /\ RepeatsRow(top[i], heatmap)
                  /\ Get(top[i], "total")[2] = RowTotal(top[i])

\* a returned call over several files, one of them with issues of two
\* severities, listed in both per-file lists
C20_MixedFileListed ==
    /\ MetricsReturned
    /\ Len(Get(m_ret, "heatmap")[2]) >= 2
    /\ \E i \in 1..Len(Get(m_ret, "top_files")[2]) :
          LET e == Get(m_ret, "top_files")[2][i]
          IN  /\ Get(e, "issues")[2] >= 2
              /\ Get(e, "high")[2] >= 1
              /\ Get(e, "low")[2] + Get(e, "medium")[2] >= 1
              /\ \E j \in 1..Len(Get(m_ret, "top_refactor_priority")[2]) :
                    Get(Get(m_ret, "top_refactor_priority")[2][j], "file") = Get(e, "file")

----------------------------------------------------------------------------
(* Runner warnings (Spec) *)

\* run_flake8 of the last run wrote a warning: its output was not JSON, or the
\* tool failed with text on stderr
Flake8Warned ==
    /\ IsDict(run.ret) /\ run.input_seen /\ IsDict(run.flake8)
    /\ \/ /\ Strip(Get(run.flake8, "stdout")[2]) # ""
          /\ IsRaise(json_loads(Get(run.flake8, "stdout")[2]))
       \/ /\ ~Get(run.flake8, "ok")[2]
          /\ Strip(Get(run.flake8, "stderr")[2]) # ""

\* C21: when run_tools_for_scan has returned from a run in which run_flake8
\* wrote a warning, runner_warnings.json still holds that flake8 warning,
\* whatever run_bandit did afterwards.
C21_Flake8WarningKept ==
    Flake8Warned =>
        /\ IsDict(files[WARNINGS_JSON])
        /\ Get(files[WARNINGS_JSON], "tool") = PyStr("flake8")

----------------------------------------------------------------------------
(* Derived artifacts (Spec) *)

\* C22: whenever run_tools_for_scan has returned, with DONE or FAILED, on a
\* first run or a re-run, metrics.json, if it exists, is build_metrics of the
\* stored normalized documents, and score.json, if it exists, is
\* compute_score of the stored metrics.json.
C22_ArtifactsConsistent ==
    IsDict(run.ret) =>
        /\ files[METRICS_JSON] # Absent =>
              files[METRICS_JSON] =
                  JsonDocument(build_metrics(<<files[FLAKE8_NORM_JSON], files[BANDIT_NORM_JSON]>>,
                                             None))
        /\ files[SCORE_JSON] # Absent =>
              files[SCORE_JSON] = JsonDocument(compute_score(files[METRICS_JSON]))

====
